---- MODULE Spec2Model ----
(***************************************************************************)
(* The Animal aggregate of src/domain/animal/entities/animal.py as a state *)
(* machine.  The aggregate is the record `animal`, whose fields carry the  *)
(* names of the dataclass fields.  Every method of the class is a pure     *)
(* operator from the aggregate (and the call's arguments) to the outcome   *)
(* of the call: the aggregate afterwards and either "OK" or the name of    *)
(* the exception raised.  One action per method applies that operator.     *)
(*                                                                         *)
(* Not modelled: the fields id and chipping_datetime (no method reads or   *)
(* writes them, id only travels in exception arguments) and the            *)
(* datetime_of_visit of a visited location (written once, never read).     *)
(***************************************************************************)
EXTENDS Integers, Sequences, FiniteSets, TLC

VARIABLES animal, before, next_id, call, result, dead_with

vars == <<animal, before, next_id, call, result, dead_with>>

(***************************************************************************)
(* Bounds of the model.                                                    *)
(***************************************************************************)
\* location point ids are 1..NumPoints
NumPoints == 3
\* animal type ids are 1..NumTypes in the runs of the type-tag operations
NumTypes == 3
\* visited locations ever created for one animal
MaxId == 3
\* animal type ids are 1..NumTypesMut in the runs of the six mutations together
NumTypesMut == 2
\* visited locations ever created in the runs of the six mutations together
MaxIdMut == 2
\* weight, length, height and chipper_id are 1..MaxScalar
MaxScalar == 2
\* clock readings of datetime.utcnow() are 1..MaxTime
MaxTime == 2

Points == 1..NumPoints
TypeIds == 1..NumTypes
TypeIdsMut == 1..NumTypesMut
Scalars == 1..MaxScalar
Times == 1..MaxTime
Genders == {"MALE", "FEMALE"}
LifeStatus == {"ALIVE", "DEAD"}

(***************************************************************************)
(* Optional values.  An argument left at Empty.UNSET is the empty set, a   *)
(* supplied argument v is {v}; None is the empty set, a present value v is *)
(* {v}.                                                                    *)
(***************************************************************************)
UNSET == {}
None == {}
Some(v) == {v}
Opt(S) == {UNSET} \cup {Some(v) : v \in S}
The(s) == CHOOSE v \in s : TRUE

(***************************************************************************)
(* Python list primitives used by the class.                               *)
(***************************************************************************)
\* list.index(x): the first position holding a value equal to x
index(s, x) == CHOOSE i \in 1..Len(s) : s[i] = x /\ \A j \in 1..(i - 1) : s[j] # x

\* x in list
contains(s, x) == \E i \in 1..Len(s) : s[i] = x

\* list.remove(x): drops the first value equal to x
remove(s, x) == SubSeq(s, 1, index(s, x) - 1) \o SubSeq(s, index(s, x) + 1, Len(s))

\* list.count(x)
count(s, x) == Cardinality({i \in 1..Len(s) : s[i] = x})

(***************************************************************************)
(* Entities held by the aggregate.  A type tag is its animal_type_id (tags *)
(* compare by type id).  A visited location is a record of its identity    *)
(* and its location point.                                                 *)
(***************************************************************************)
TypeOfSpecificAnimal_create(animal_type_id) == animal_type_id

TypeOfSpecificAnimal_update(tag, animal_type_id) == animal_type_id

AnimalVisitedLocation_create(new_id, location_point_id) ==
    [id |-> new_id, location_point_id |-> location_point_id]

AnimalVisitedLocation_update(location, location_point_id) ==
    [location EXCEPT !.location_point_id = location_point_id]

(***************************************************************************)
(* Outcome of a call.                                                      *)
(***************************************************************************)
Return(self) == [self |-> self, result |-> "OK"]
Raise(self, exception) == [self |-> self, result |-> exception]

(***************************************************************************)
(* Animal.create                                                           *)
(***************************************************************************)
create(animal_types, weight, length, height, gender, chipping_location_id, chipper_id, life_status, visited_locations, death_datetime) ==
    [animal_types |-> animal_types,
     weight |-> weight,
     length |-> length,
     height |-> height,
     gender |-> gender,
     life_status |-> life_status,
     chipping_location_id |-> chipping_location_id,
     chipper_id |-> chipper_id,
     visited_locations |-> IF visited_locations # None /\ The(visited_locations) # <<>>
                           THEN The(visited_locations) ELSE <<>>,
     death_datetime |-> death_datetime]

(***************************************************************************)
(* Animal.update = data_filter, then EntityMerge._merge                    *)
(***************************************************************************)
\* data_filter keeps the keywords whose argument is not Empty.UNSET
data_filter(kwargs) ==
    [k \in {key \in DOMAIN kwargs : kwargs[key] # UNSET} |-> The(kwargs[k])]

\* _merge applies each keyword kept: a list is appended to the list the
\* aggregate holds, any other value replaces the field.  update passes the
\* chipper and the chip-in location under the keywords chipper and
\* chipping_location; _merge applies them to chipper_id and
\* chipping_location_id.
_merge(self, kw) ==
    [animal_types |-> IF "animal_types" \in DOMAIN kw
                      THEN self.animal_types \o kw.animal_types ELSE self.animal_types,
     weight |-> IF "weight" \in DOMAIN kw THEN kw.weight ELSE self.weight,
     length |-> IF "length" \in DOMAIN kw THEN kw.length ELSE self.length,
     height |-> IF "height" \in DOMAIN kw THEN kw.height ELSE self.height,
     gender |-> IF "gender" \in DOMAIN kw THEN kw.gender ELSE self.gender,
     life_status |-> IF "life_status" \in DOMAIN kw THEN kw.life_status ELSE self.life_status,
     chipping_location_id |-> IF "chipping_location" \in DOMAIN kw
                              THEN kw.chipping_location ELSE self.chipping_location_id,
     chipper_id |-> IF "chipper" \in DOMAIN kw THEN kw.chipper ELSE self.chipper_id,
     visited_locations |-> IF "visited_locations" \in DOMAIN kw
                           THEN self.visited_locations \o kw.visited_locations
                           ELSE self.visited_locations,
     death_datetime |-> self.death_datetime]

\* mutant: the gender keyword is left out of the data_filter call
update_without_gender(self, weight, length, height, gender, life_status, chipper_id, chipping_location_id, animal_types, visited_locations) ==
    _merge(self, data_filter([weight |-> weight,
                              length |-> length,
                              height |-> height,
                              life_status |-> life_status,
                              chipper |-> chipper_id,
                              chipping_location |-> chipping_location_id,
                              animal_types |-> animal_types,
                              visited_locations |-> visited_locations]))

update(self, weight, length, height, gender, life_status, chipper_id, chipping_location_id, animal_types, visited_locations) ==
    _merge(self, data_filter([weight |-> weight,
                              length |-> length,
                              height |-> height,
                              gender |-> gender,
                              life_status |-> life_status,
                              chipper |-> chipper_id,
                              chipping_location |-> chipping_location_id,
                              animal_types |-> animal_types,
                              visited_locations |-> visited_locations]))

(***************************************************************************)
(* Animal.set_death_datetime                                               *)
(***************************************************************************)
\* mutant: the stamp is written whatever the life status
set_death_datetime_always(self, utcnow) ==
    [self EXCEPT !.death_datetime = Some(utcnow)]

set_death_datetime(self, utcnow) ==
    IF self.life_status = "DEAD"
    THEN [self EXCEPT !.death_datetime = Some(utcnow)]
    ELSE self

(***************************************************************************)
(* Animal.check_duplicate_types: the first tag that occurs more than once, *)
(* None when there is none.                                                *)
(***************************************************************************)
check_duplicate_types(self) ==
    LET dup == {i \in 1..Len(self.animal_types) :
                    count(self.animal_types, self.animal_types[i]) > 1}
    IN  IF dup = {} THEN None
        ELSE Some(self.animal_types[CHOOSE i \in dup : \A j \in dup : i <= j])

(***************************************************************************)
(* Private look-ups.                                                       *)
(***************************************************************************)
\* _check_exist_animal_type
_check_exist_animal_type(self, animal_type_id) ==
    \E i \in 1..Len(self.animal_types) : self.animal_types[i] = animal_type_id

\* _get_animal_type: the first tag with that type id; callers test
\* _has_animal_type first, its failure is AnimalNotHaveThisType
_has_animal_type(self, animal_type_id) ==
    \E i \in 1..Len(self.animal_types) : self.animal_types[i] = animal_type_id

_get_animal_type(self, animal_type_id) ==
    self.animal_types[CHOOSE i \in 1..Len(self.animal_types) :
                         /\ self.animal_types[i] = animal_type_id
                         /\ \A j \in 1..(i - 1) : self.animal_types[j] # animal_type_id]

\* _get_visited_location: the first entry with that id; callers test
\* _has_visited_location first, its failure is AnimalHasNoCurrentVisitedLocation
_has_visited_location(self, visited_location_id) ==
    \E i \in 1..Len(self.visited_locations) :
        self.visited_locations[i].id = visited_location_id

_get_visited_location(self, visited_location_id) ==
    self.visited_locations[CHOOSE i \in 1..Len(self.visited_locations) :
        /\ self.visited_locations[i].id = visited_location_id
        /\ \A j \in 1..(i - 1) : self.visited_locations[j].id # visited_location_id]

(***************************************************************************)
(* Animal.add_animal_type                                                  *)
(***************************************************************************)
\* mutant: the tag is appended without looking for it in the list
add_animal_type_unchecked(self, type_id) ==
    Return(update(self, UNSET, UNSET, UNSET, UNSET, UNSET, UNSET, UNSET,
                  Some(<<TypeOfSpecificAnimal_create(type_id)>>), UNSET))

add_animal_type(self, type_id) ==
    LET type_of_this_animal == TypeOfSpecificAnimal_create(type_id)
    IN  IF contains(self.animal_types, type_of_this_animal)
        THEN Raise(self, "AnimalAlreadyHaveThisType")
        ELSE Return(update(self, UNSET, UNSET, UNSET, UNSET, UNSET, UNSET, UNSET,
                           Some(<<type_of_this_animal>>), UNSET))

(***************************************************************************)
(* Animal.add_visited_location                                             *)
(***************************************************************************)
\* mutant: the chip-in check made before the dead check
add_visited_location_chip_first(self, location_point_id, new_id) ==
    IF self.chipping_location_id = location_point_id
    THEN Raise(self, "LocationPointEqualToChippingLocation")
    ELSE IF self.life_status = "DEAD"
    THEN Raise(self, "AnimalIsDead")
    ELSE IF /\ self.visited_locations # <<>>
            /\ self.visited_locations[Len(self.visited_locations)].location_point_id
                   = location_point_id
    THEN Raise(self, "AnimalNowInThisPoint")
    ELSE Return(update(self, UNSET, UNSET, UNSET, UNSET, UNSET, UNSET, UNSET, UNSET,
                       Some(<<AnimalVisitedLocation_create(new_id, location_point_id)>>)))

\* mutant: the chip-in check made only while the history is empty
add_visited_location_chip_when_empty(self, location_point_id, new_id) ==
    IF self.life_status = "DEAD"
    THEN Raise(self, "AnimalIsDead")
    ELSE IF self.visited_locations = <<>> /\ self.chipping_location_id = location_point_id
    THEN Raise(self, "LocationPointEqualToChippingLocation")
    ELSE IF /\ self.visited_locations # <<>>
            /\ self.visited_locations[Len(self.visited_locations)].location_point_id
                   = location_point_id
    THEN Raise(self, "AnimalNowInThisPoint")
    ELSE Return(update(self, UNSET, UNSET, UNSET, UNSET, UNSET, UNSET, UNSET, UNSET,
                       Some(<<AnimalVisitedLocation_create(new_id, location_point_id)>>)))

\* mutant: the last-visited check left out
add_visited_location_no_last_check(self, location_point_id, new_id) ==
    IF self.life_status = "DEAD"
    THEN Raise(self, "AnimalIsDead")
    ELSE IF self.chipping_location_id = location_point_id
    THEN Raise(self, "LocationPointEqualToChippingLocation")
    ELSE Return(update(self, UNSET, UNSET, UNSET, UNSET, UNSET, UNSET, UNSET, UNSET,
                       Some(<<AnimalVisitedLocation_create(new_id, location_point_id)>>)))

\* mutant: the chip-in check left out
add_visited_location_no_chip_check(self, location_point_id, new_id) ==
    IF self.life_status = "DEAD"
    THEN Raise(self, "AnimalIsDead")
    ELSE IF /\ self.visited_locations # <<>>
            /\ self.visited_locations[Len(self.visited_locations)].location_point_id
                   = location_point_id
    THEN Raise(self, "AnimalNowInThisPoint")
    ELSE Return(update(self, UNSET, UNSET, UNSET, UNSET, UNSET, UNSET, UNSET, UNSET,
                       Some(<<AnimalVisitedLocation_create(new_id, location_point_id)>>)))

add_visited_location(self, location_point_id, new_id) ==
    IF self.life_status = "DEAD"
    THEN Raise(self, "AnimalIsDead")
    ELSE IF self.chipping_location_id = location_point_id
    THEN Raise(self, "LocationPointEqualToChippingLocation")
    ELSE IF /\ self.visited_locations # <<>>
            /\ self.visited_locations[Len(self.visited_locations)].location_point_id
                   = location_point_id
    THEN Raise(self, "AnimalNowInThisPoint")
    ELSE LET visited_location == AnimalVisitedLocation_create(new_id, location_point_id)
         IN  Return(update(self, UNSET, UNSET, UNSET, UNSET, UNSET, UNSET, UNSET,
                           UNSET, Some(<<visited_location>>)))

(***************************************************************************)
(* Animal.change_animal_type                                               *)
(***************************************************************************)
\* mutant: the old tag is removed and the new one appended
change_animal_type_remove_append(self, old_type_int, new_type_id) ==
    IF _check_exist_animal_type(self, old_type_int) /\ _check_exist_animal_type(self, new_type_id)
    THEN Raise(self, "AnimalAlreadyHaveThisTypes")
    ELSE IF _check_exist_animal_type(self, new_type_id)
    THEN Raise(self, "AnimalAlreadyHaveThisType")
    ELSE IF ~_has_animal_type(self, old_type_int)
    THEN Raise(self, "AnimalNotHaveThisType")
    ELSE Return([self EXCEPT !.animal_types =
                    Append(remove(@, _get_animal_type(self, old_type_int)),
                           TypeOfSpecificAnimal_create(new_type_id))])

\* mutant: the new type is looked for before the pair
change_animal_type_new_first(self, old_type_int, new_type_id) ==
    LET exist_old_type == _check_exist_animal_type(self, old_type_int)
        exist_new_type == _check_exist_animal_type(self, new_type_id)
    IN  IF exist_new_type
        THEN Raise(self, "AnimalAlreadyHaveThisType")
        ELSE IF exist_old_type /\ exist_new_type
        THEN Raise(self, "AnimalAlreadyHaveThisTypes")
        ELSE IF ~_has_animal_type(self, old_type_int)
        THEN Raise(self, "AnimalNotHaveThisType")
        ELSE LET animal_type == _get_animal_type(self, old_type_int)
                 index_animal_type == index(self.animal_types, animal_type)
             IN  Return([self EXCEPT !.animal_types[index_animal_type] =
                            TypeOfSpecificAnimal_update(@, new_type_id)])

change_animal_type(self, old_type_int, new_type_id) ==
    LET exist_old_type == _check_exist_animal_type(self, old_type_int)
        exist_new_type == _check_exist_animal_type(self, new_type_id)
    IN  IF exist_old_type /\ exist_new_type
        THEN Raise(self, "AnimalAlreadyHaveThisTypes")
        ELSE IF exist_new_type
        THEN Raise(self, "AnimalAlreadyHaveThisType")
        ELSE IF ~_has_animal_type(self, old_type_int)
        THEN Raise(self, "AnimalNotHaveThisType")
        ELSE LET animal_type == _get_animal_type(self, old_type_int)
                 index_animal_type == index(self.animal_types, animal_type)
             IN  Return([self EXCEPT !.animal_types[index_animal_type] =
                            TypeOfSpecificAnimal_update(@, new_type_id)])

(***************************************************************************)
(* Animal.change_visited_location                                          *)
(***************************************************************************)
\* mutant: the entry is rewritten before the checks, so a failure leaves the
\* new point behind
change_visited_location_write_first(self, visited_location_id, new_location_point_id) ==
    IF ~_has_visited_location(self, visited_location_id)
    THEN Raise(self, "AnimalHasNoCurrentVisitedLocation")
    ELSE
    LET visited_location == _get_visited_location(self, visited_location_id)
        location_index == index(self.visited_locations, visited_location)
        next_element == self.visited_locations[location_index + 1]
        previous_element == self.visited_locations[location_index - 1]
        written == [self EXCEPT !.visited_locations[location_index] =
                       AnimalVisitedLocation_update(@, new_location_point_id)]
    IN  IF visited_location.location_point_id = new_location_point_id
        THEN Raise(written, "UpdateToSameLocationPoint")
        ELSE IF location_index # 1 /\ location_index # Len(self.visited_locations)
        THEN IF next_element.location_point_id = new_location_point_id
             THEN Raise(written, "NextOfPreviousEqualThisLocation")
             ELSE IF previous_element.location_point_id = new_location_point_id
             THEN Raise(written, "NextOfPreviousEqualThisLocation")
             ELSE Return(written)
        ELSE IF location_index = 1 /\ new_location_point_id = self.chipping_location_id
        THEN Raise(written, "UpdatedFirstPointToChippingPoint")
        ELSE Return(written)

\* mutant: an interior entry is compared with the next entry only
change_visited_location_next_only(self, visited_location_id, new_location_point_id) ==
    IF ~_has_visited_location(self, visited_location_id)
    THEN Raise(self, "AnimalHasNoCurrentVisitedLocation")
    ELSE
    LET visited_location == _get_visited_location(self, visited_location_id)
        location_index == index(self.visited_locations, visited_location)
        next_element == self.visited_locations[location_index + 1]
        changed == Return([self EXCEPT !.visited_locations[location_index] =
                              AnimalVisitedLocation_update(@, new_location_point_id)])
    IN  IF visited_location.location_point_id = new_location_point_id
        THEN Raise(self, "UpdateToSameLocationPoint")
        ELSE IF location_index # 1 /\ location_index # Len(self.visited_locations)
        THEN IF next_element.location_point_id = new_location_point_id
             THEN Raise(self, "NextOfPreviousEqualThisLocation")
             ELSE changed
        ELSE IF location_index = 1 /\ new_location_point_id = self.chipping_location_id
        THEN Raise(self, "UpdatedFirstPointToChippingPoint")
        ELSE changed

\* mutant: the chip-in point is refused for the first entry only when other
\* entries follow it
change_visited_location_first_of_several(self, visited_location_id, new_location_point_id) ==
    IF ~_has_visited_location(self, visited_location_id)
    THEN Raise(self, "AnimalHasNoCurrentVisitedLocation")
    ELSE
    LET visited_location == _get_visited_location(self, visited_location_id)
        location_index == index(self.visited_locations, visited_location)
        next_element == self.visited_locations[location_index + 1]
        previous_element == self.visited_locations[location_index - 1]
        changed == Return([self EXCEPT !.visited_locations[location_index] =
                              AnimalVisitedLocation_update(@, new_location_point_id)])
    IN  IF visited_location.location_point_id = new_location_point_id
        THEN Raise(self, "UpdateToSameLocationPoint")
        ELSE IF location_index # 1 /\ location_index # Len(self.visited_locations)
        THEN IF next_element.location_point_id = new_location_point_id
             THEN Raise(self, "NextOfPreviousEqualThisLocation")
             ELSE IF previous_element.location_point_id = new_location_point_id
             THEN Raise(self, "NextOfPreviousEqualThisLocation")
             ELSE changed
        ELSE IF /\ location_index = 1
                /\ Len(self.visited_locations) > 1
                /\ new_location_point_id = self.chipping_location_id
        THEN Raise(self, "UpdatedFirstPointToChippingPoint")
        ELSE changed

\* mutant: the last entry is compared with the entry before it
change_visited_location_checks_previous(self, visited_location_id, new_location_point_id) ==
    IF ~_has_visited_location(self, visited_location_id)
    THEN Raise(self, "AnimalHasNoCurrentVisitedLocation")
    ELSE
    LET visited_location == _get_visited_location(self, visited_location_id)
        location_index == index(self.visited_locations, visited_location)
        next_element == self.visited_locations[location_index + 1]
        previous_element == self.visited_locations[location_index - 1]
        changed == Return([self EXCEPT !.visited_locations[location_index] =
                              AnimalVisitedLocation_update(@, new_location_point_id)])
    IN  IF visited_location.location_point_id = new_location_point_id
        THEN Raise(self, "UpdateToSameLocationPoint")
        ELSE IF location_index # 1
        THEN IF /\ location_index # Len(self.visited_locations)
                /\ next_element.location_point_id = new_location_point_id
             THEN Raise(self, "NextOfPreviousEqualThisLocation")
             ELSE IF previous_element.location_point_id = new_location_point_id
             THEN Raise(self, "NextOfPreviousEqualThisLocation")
             ELSE changed
        ELSE IF location_index = 1 /\ new_location_point_id = self.chipping_location_id
        THEN Raise(self, "UpdatedFirstPointToChippingPoint")
        ELSE changed

change_visited_location(self, visited_location_id, new_location_point_id) ==
    IF ~_has_visited_location(self, visited_location_id)
    THEN Raise(self, "AnimalHasNoCurrentVisitedLocation")
    ELSE
    LET visited_location == _get_visited_location(self, visited_location_id)
        location_index == index(self.visited_locations, visited_location)
        next_element == self.visited_locations[location_index + 1]
        previous_element == self.visited_locations[location_index - 1]
        changed == Return([self EXCEPT !.visited_locations[location_index] =
                              AnimalVisitedLocation_update(@, new_location_point_id)])
    IN  IF visited_location.location_point_id = new_location_point_id
        THEN Raise(self, "UpdateToSameLocationPoint")
        ELSE IF location_index # 1 /\ location_index # Len(self.visited_locations)
        THEN IF next_element.location_point_id = new_location_point_id
             THEN Raise(self, "NextOfPreviousEqualThisLocation")
             ELSE IF previous_element.location_point_id = new_location_point_id
             THEN Raise(self, "NextOfPreviousEqualThisLocation")
             ELSE changed
        ELSE IF location_index = 1 /\ new_location_point_id = self.chipping_location_id
        THEN Raise(self, "UpdatedFirstPointToChippingPoint")
        ELSE changed

(***************************************************************************)
(* Animal.delete_visited_location                                          *)
(***************************************************************************)
\* mutant: the entry is removed alone, whatever follows it
delete_visited_location_alone(self, visited_location_id) ==
    IF ~_has_visited_location(self, visited_location_id)
    THEN Raise(self, "AnimalHasNoCurrentVisitedLocation")
    ELSE Return([self EXCEPT !.visited_locations =
                    remove(@, _get_visited_location(self, visited_location_id))])

delete_visited_location(self, visited_location_id) ==
    IF ~_has_visited_location(self, visited_location_id)
    THEN Raise(self, "AnimalHasNoCurrentVisitedLocation")
    ELSE
    LET visited_location == _get_visited_location(self, visited_location_id)
        index_visited_location == index(self.visited_locations, visited_location)
        next_visited_location == self.visited_locations[index_visited_location + 1]
        after_next ==
            IF /\ index_visited_location # Len(self.visited_locations)
               /\ index_visited_location = 1
               /\ next_visited_location.location_point_id = self.chipping_location_id
            THEN remove(self.visited_locations, next_visited_location)
            ELSE self.visited_locations
    IN  Return([self EXCEPT !.visited_locations = remove(after_next, visited_location)])

(***************************************************************************)
(* Animal.delete_animal_type                                               *)
(***************************************************************************)
\* mutant: the only tag can be removed
delete_animal_type_any(self, animal_type_id) ==
    IF ~_has_animal_type(self, animal_type_id)
    THEN Raise(self, "AnimalNotHaveThisType")
    ELSE Return([self EXCEPT !.animal_types =
                    remove(@, _get_animal_type(self, animal_type_id))])

\* mutant: a single tag is refused before the type is looked up
delete_animal_type_single_first(self, animal_type_id) ==
    IF Len(self.animal_types) = 1
    THEN Raise(self, "AnimalOnlyHasThisType")
    ELSE IF ~_has_animal_type(self, animal_type_id)
    THEN Raise(self, "AnimalNotHaveThisType")
    ELSE Return([self EXCEPT !.animal_types =
                    remove(@, _get_animal_type(self, animal_type_id))])

delete_animal_type(self, animal_type_id) ==
    IF ~_has_animal_type(self, animal_type_id)
    THEN Raise(self, "AnimalNotHaveThisType")
    ELSE
    LET type_of_this_animal == _get_animal_type(self, animal_type_id)
    IN  IF Len(self.animal_types) = 1 /\ self.animal_types[1] = type_of_this_animal
        THEN Raise(self, "AnimalOnlyHasThisType")
        ELSE IF ~contains(self.animal_types, type_of_this_animal)
        THEN Raise(self, "AnimalNotHaveThisType")
        ELSE Return([self EXCEPT !.animal_types = remove(@, type_of_this_animal)])

(***************************************************************************)
(* Actions: one per method.  call records the method and its arguments,    *)
(* result the outcome, before the aggregate as it was when the call was    *)
(* made.  next_id is the identity the next visited location created        *)
(* receives.                                                               *)
(*                                                                         *)
(* dead_with is a history variable: in the runs that observe it, it is     *)
(* None while the animal is not dead and, while it is dead, the length     *)
(* visited_locations had when it became dead.  The other runs leave it at  *)
(* NotObserved.                                                            *)
(***************************************************************************)
NotObserved == {-1}

DeadWith(op, self) ==
    IF dead_with = NotObserved THEN NotObserved
    ELSE IF self.life_status # "DEAD" THEN None
    ELSE IF op # "create" /\ animal.life_status = "DEAD" THEN dead_with
    ELSE Some(Len(self.visited_locations))

Outcome(op, args, r) ==
    /\ animal' = r.self
    /\ before' = animal
    /\ call' = [op |-> op, args |-> args]
    /\ result' = r.result
    /\ dead_with' = DeadWith(op, r.self)

Create(Types, Weights, Lives) ==
    \E t \in Types, weight \in Weights, chipping_location_id \in Points, life \in Lives :
        /\ Outcome("create", life,
                   Return(create(<<t>>, weight, 1, 1, "MALE", chipping_location_id, 1,
                                 life[1], None, life[2])))
        /\ next_id' = 1

Update(Weights, Lengths, Heights, Gends, Lifes, Chippers, Locations, Types, cap) ==
    \E weight \in Opt(Weights), length \in Opt(Lengths), height \in Opt(Heights),
       gender \in Opt(Gends), life_status \in Opt(Lifes), chipper_id \in Opt(Chippers),
       chipping_location_id \in Opt(Locations),
       animal_types \in Opt({<<t>> : t \in Types}),
       visited_locations \in
           Opt({<<AnimalVisitedLocation_create(next_id, p)>> : p \in Points}) :
        /\ visited_locations # UNSET => next_id <= cap
        /\ animal_types # UNSET => Len(animal.animal_types) <= Cardinality(Types)
        /\ Outcome("update",
                   <<weight, length, height, gender, life_status, chipper_id,
                     chipping_location_id, animal_types, visited_locations>>,
                   Return(update(animal, weight, length, height, gender, life_status,
                                 chipper_id, chipping_location_id, animal_types,
                                 visited_locations)))
        /\ next_id' = IF visited_locations # UNSET THEN next_id + 1 ELSE next_id

SetDeathDatetime ==
    \E utcnow \in Times :
        /\ Outcome("set_death_datetime", <<utcnow>>,
                   Return(set_death_datetime(animal, utcnow)))
        /\ UNCHANGED next_id

AddAnimalType(Types) ==
    \E type_id \in Types :
        /\ Outcome("add_animal_type", <<type_id>>, add_animal_type(animal, type_id))
        /\ UNCHANGED next_id

ChangeAnimalType(Types) ==
    \E old_type_int \in Types, new_type_id \in Types :
        /\ Outcome("change_animal_type", <<old_type_int, new_type_id>>,
                   change_animal_type(animal, old_type_int, new_type_id))
        /\ UNCHANGED next_id

DeleteAnimalType(Types) ==
    \E animal_type_id \in Types :
        /\ Outcome("delete_animal_type", <<animal_type_id>>,
                   delete_animal_type(animal, animal_type_id))
        /\ UNCHANGED next_id

AddVisitedLocation(cap) ==
    \E location_point_id \in Points :
        LET r == add_visited_location(animal, location_point_id, next_id)
        IN  /\ r.result = "OK" => next_id <= cap
            /\ Outcome("add_visited_location", <<location_point_id>>, r)
            /\ next_id' = IF r.result = "OK" THEN next_id + 1 ELSE next_id

ChangeVisitedLocation(cap) ==
    \E visited_location_id \in 1..cap, new_location_point_id \in Points :
        /\ Outcome("change_visited_location",
                   <<visited_location_id, new_location_point_id>>,
                   change_visited_location(animal, visited_location_id,
                                           new_location_point_id))
        /\ UNCHANGED next_id

DeleteVisitedLocation(cap) ==
    \E visited_location_id \in 1..cap :
        /\ Outcome("delete_visited_location", <<visited_location_id>>,
                   delete_visited_location(animal, visited_location_id))
        /\ UNCHANGED next_id

(***************************************************************************)
(* The animal a run starts from: created alive or dead, chipped at any     *)
(* point, with one type tag and an empty visited-location history.         *)
(***************************************************************************)
Created(Lifes) ==
    /\ \E chipping_location_id \in Points, life_status \in Lifes :
           animal = create(<<1>>, 1, 1, 1, "MALE", chipping_location_id, 1, life_status,
                           None, IF life_status = "DEAD" THEN Some(1) ELSE None)
    /\ before = animal
    /\ dead_with = NotObserved
    /\ next_id = 1
    /\ call = [op |-> "create", args |-> <<>>]
    /\ result = "OK"

(***************************************************************************)
(* Spec: the visited-location operations together with update, which can   *)
(* change life_status and chipping_location_id and extend the history.     *)
(***************************************************************************)
Init == Created({"ALIVE"})

Next ==
    \/ Update({}, {}, {}, {}, LifeStatus, {}, Points, {}, MaxId)
    \/ AddVisitedLocation(MaxId)
    \/ ChangeVisitedLocation(MaxId)
    \/ DeleteVisitedLocation(MaxId)

Spec == Init /\ [][Next]_vars

(***************************************************************************)
(* SpecDead: the operations of Spec, with dead_with observed.              *)
(***************************************************************************)
InitDead ==
    /\ \E chipping_location_id \in Points :
           animal = create(<<1>>, 1, 1, 1, "MALE", chipping_location_id, 1, "ALIVE",
                           None, None)
    /\ before = animal
    /\ dead_with = None
    /\ next_id = 1
    /\ call = [op |-> "create", args |-> <<>>]
    /\ result = "OK"

SpecDead == InitDead /\ [][Next]_vars

(***************************************************************************)
(* SpecMut: the six mutation operations that can fail, together.           *)
(***************************************************************************)
InitMut == Created(LifeStatus)

NextMut ==
    \/ AddAnimalType(TypeIdsMut)
    \/ ChangeAnimalType(TypeIdsMut)
    \/ DeleteAnimalType(TypeIdsMut)
    \/ AddVisitedLocation(MaxIdMut)
    \/ ChangeVisitedLocation(MaxIdMut)
    \/ DeleteVisitedLocation(MaxIdMut)

SpecMut == InitMut /\ [][NextMut]_vars

(***************************************************************************)
(* SpecLoc: the visited-location operations alone.                         *)
(***************************************************************************)
InitLoc == Created(LifeStatus)

NextLoc ==
    \/ AddVisitedLocation(MaxId)
    \/ ChangeVisitedLocation(MaxId)
    \/ DeleteVisitedLocation(MaxId)

SpecLoc == InitLoc /\ [][NextLoc]_vars

(***************************************************************************)
(* SpecTypes: the type-tag operations alone, from any duplicate-free list  *)
(* of one or two tags.                                                     *)
(***************************************************************************)
InitTypes ==
    /\ \E t \in TypeIds, u \in TypeIds :
           animal = create(IF t = u THEN <<t>> ELSE <<t, u>>, 1, 1, 1, "MALE", 1, 1,
                           "ALIVE", None, None)
    /\ before = animal
    /\ dead_with = NotObserved
    /\ next_id = 1
    /\ call = [op |-> "create", args |-> <<>>]
    /\ result = "OK"

NextTypes ==
    \/ AddAnimalType(TypeIds)
    \/ ChangeAnimalType(TypeIds)
    \/ DeleteAnimalType(TypeIds)

SpecTypes == InitTypes /\ [][NextTypes]_vars

(***************************************************************************)
(* SpecLife: construction, update of the scalar fields and the death       *)
(* stamp.                                                                  *)
(***************************************************************************)
InitLife == Created({"ALIVE"})

\* the life_status and death_datetime an animal is constructed with: alive and
\* unstamped, or dead and stamped
LivesCreated == {<<"ALIVE", None>>} \cup {<<"DEAD", Some(t)>> : t \in Times}

NextLife ==
    \/ Create({1}, Scalars, LivesCreated)
    \/ Update(Scalars, {}, {}, {}, LifeStatus, {}, Points, {}, 0)
    \/ SetDeathDatetime

SpecLife == InitLife /\ [][NextLife]_vars

(***************************************************************************)
(* SpecUpdate: update of the seven scalar fields, each argument left unset *)
(* or supplied.                                                            *)
(***************************************************************************)
InitUpdate == Created({"ALIVE"})

NextUpdate ==
    Update({MaxScalar}, {MaxScalar}, {MaxScalar}, {"FEMALE"}, LifeStatus, {MaxScalar},
           {NumPoints}, {}, 0)

SpecUpdate == InitUpdate /\ [][NextUpdate]_vars

(***************************************************************************)
(* SpecStamp: the death stamp among every operation on a constructed       *)
(* animal; update supplies life_status only and the history holds at most  *)
(* one entry.                                                              *)
(***************************************************************************)
InitStamp == Created({"ALIVE"})

NextStamp ==
    \/ Update({}, {}, {}, {}, LifeStatus, {}, {}, {}, 0)
    \/ SetDeathDatetime
    \/ AddAnimalType(TypeIdsMut)
    \/ ChangeAnimalType(TypeIdsMut)
    \/ DeleteAnimalType(TypeIdsMut)
    \/ AddVisitedLocation(1)
    \/ ChangeVisitedLocation(1)
    \/ DeleteVisitedLocation(1)

SpecStamp == InitStamp /\ [][NextStamp]_vars

(***************************************************************************)
(* SpecAddDelete: add_visited_location and delete_visited_location alone,  *)
(* from an empty history; nothing assigns chipping_location_id.            *)
(***************************************************************************)
InitAddDelete == Created(LifeStatus)

NextAddDelete ==
    \/ AddVisitedLocation(MaxId)
    \/ DeleteVisitedLocation(MaxId)

SpecAddDelete == InitAddDelete /\ [][NextAddDelete]_vars

(***************************************************************************)
(* Properties.  locations and types are the lists after the last call,     *)
(* locations_before and types_before the lists when it was made.           *)
(***************************************************************************)
locations == animal.visited_locations
locations_before == before.visited_locations
types == animal.animal_types
types_before == before.animal_types

\* the last call was op and it returned
Succeeded(op) == call.op = op /\ result = "OK"

\* the last call was op and it raised
Failed(op) == call.op = op /\ result # "OK"

\* C1: no two adjacent entries of visited_locations have the same
\* location_point_id, in every state reached from an empty history by
\* add_visited_location, change_visited_location and delete_visited_location.
C1_NoAdjacentDuplicates ==
    \A i \in 1..(Len(locations) - 1) :
        locations[i].location_point_id # locations[i + 1].location_point_id

\* C2: whenever visited_locations is non-empty, its first entry's
\* location_point_id differs from chipping_location_id.
C2_FirstIsNotChippingLocation ==
    locations # <<>> => locations[1].location_point_id # animal.chipping_location_id

\* C3: delete_animal_type fails when the animal has exactly one tag; with two
\* or more tags, deleting a tag the animal has succeeds and leaves one tag
\* fewer; animal_types is never empty.
C3_DeleteAnimalType ==
    /\ types # <<>>
    /\ call.op = "delete_animal_type" =>
        /\ Len(types_before) = 1 => result # "OK" /\ types = types_before
        /\ (Len(types_before) >= 2 /\ contains(types_before, call.args[1])) =>
               result = "OK" /\ Len(types) = Len(types_before) - 1

W3_DeletedOneOfSeveral ==
    /\ Succeeded("delete_animal_type")
    /\ Len(types_before) >= 2
    /\ Len(types) = Len(types_before) - 1

\* C4: add_visited_location on a dead animal raises AnimalIsDead for every
\* location point, the chip-in point and the last visited point included, and
\* leaves visited_locations unchanged.
C4_DeadAnimalAcceptsNoLocation ==
    (call.op = "add_visited_location" /\ before.life_status = "DEAD") =>
        result = "AnimalIsDead" /\ locations = locations_before

W4_DeadAnimalRefusedChippingPoint ==
    /\ call.op = "add_visited_location"
    /\ before.life_status = "DEAD"
    /\ locations_before # <<>>
    /\ call.args[1] = before.chipping_location_id
    /\ result = "AnimalIsDead"

\* C5: death_datetime is set if and only if life_status is DEAD, in every
\* state reached by create, update and set_death_datetime.
C5_DeathDatetimeIffDead ==
    animal.death_datetime # None <=> animal.life_status = "DEAD"

\* C6: a call of add_animal_type, add_visited_location, change_animal_type,
\* change_visited_location, delete_visited_location or delete_animal_type that
\* raises leaves every field of the aggregate as it was.
C6_FailureChangesNothing ==
    (/\ call.op \in {"add_animal_type", "add_visited_location", "change_animal_type",
                     "change_visited_location", "delete_visited_location",
                     "delete_animal_type"}
     /\ result # "OK") => animal = before

W6_FailedOnPopulatedAnimal ==
    /\ Failed("change_visited_location")
    /\ result = "UpdatedFirstPointToChippingPoint"
    /\ Len(locations_before) = 2
    /\ Len(types_before) = 2

\* C7: add_visited_location with the chip-in point fails and appends nothing,
\* whatever the history and the life status.
C7_ChippingPointIsRefused ==
    (call.op = "add_visited_location" /\ call.args[1] = before.chipping_location_id) =>
        result # "OK" /\ locations = locations_before

W7_ChippingPointRefusedWithHistory ==
    /\ call.op = "add_visited_location"
    /\ result = "LocationPointEqualToChippingLocation"
    /\ Len(locations_before) >= 2

\* add_visited_location appended one entry with the point asked for and left
\* the earlier entries as they were
AppendedOne ==
    /\ result = "OK"
    /\ Len(locations) = Len(locations_before) + 1
    /\ locations[Len(locations)].location_point_id = call.args[1]
    /\ SubSeq(locations, 1, Len(locations_before)) = locations_before

\* the point asked for is the point of the last entry of the history
IsLastVisitedPoint ==
    /\ locations_before # <<>>
    /\ locations_before[Len(locations_before)].location_point_id = call.args[1]

\* C8 as stated: add_visited_location fails with the last entry's point and
\* succeeds, appending exactly one entry, with every other point.
C8_AsStated ==
    call.op = "add_visited_location" =>
        IF IsLastVisitedPoint THEN result # "OK" /\ locations = locations_before
        ELSE AppendedOne

\* C8 amended: add_visited_location fails with the last entry's point; with a
\* point different from the last entry's point and from chipping_location_id,
\* on an animal that is not dead, it succeeds and appends exactly one entry
\* with that point, the earlier entries and their order unchanged.
C8_AddVisitedLocation ==
    call.op = "add_visited_location" =>
        IF IsLastVisitedPoint THEN result # "OK" /\ locations = locations_before
        ELSE (/\ before.life_status # "DEAD"
              /\ call.args[1] # before.chipping_location_id) => AppendedOne

W8_AppendedToHistory ==
    /\ Succeeded("add_visited_location")
    /\ Len(locations_before) >= 2
    /\ AppendedOne

\* the last call was delete_visited_location of the first entry
DeletedFirst ==
    /\ call.op = "delete_visited_location"
    /\ locations_before # <<>>
    /\ locations_before[1].id = call.args[1]

\* the second entry of the history was at the chip-in point
SecondWasChippingPoint ==
    /\ Len(locations_before) >= 2
    /\ locations_before[2].location_point_id = before.chipping_location_id

\* C9: delete_visited_location of the first entry removes the first and the
\* second entry when the second entry's point is chipping_location_id, and the
\* first entry alone otherwise, also when it is the only entry.
C9_DeleteFirstVisitedLocation ==
    DeletedFirst =>
        /\ result = "OK"
        /\ locations = IF SecondWasChippingPoint
                       THEN SubSeq(locations_before, 3, Len(locations_before))
                       ELSE SubSeq(locations_before, 2, Len(locations_before))

W9_DeletedFirstAndChippingPoint ==
    /\ DeletedFirst
    /\ SecondWasChippingPoint
    /\ Len(locations_before) = 2
    /\ locations = <<>>

\* the last call was change_visited_location of the entry at position i, an
\* interior one
ChangedInterior(i) ==
    /\ call.op = "change_visited_location"
    /\ 1 < i /\ i < Len(locations_before)
    /\ locations_before[i].id = call.args[1]

\* the entry at position i took the new point; the length, the entry's
\* position and every other entry are as before
ChangedInPlace(i) ==
    /\ result = "OK"
    /\ locations = [locations_before EXCEPT ![i].location_point_id = call.args[2]]

\* C10 as stated: on an interior entry change_visited_location fails with the
\* previous or the next entry's point and succeeds in place with every other
\* point.
C10_AsStated ==
    \A i \in 1..Len(locations_before) :
        ChangedInterior(i) =>
            IF call.args[2] \in {locations_before[i - 1].location_point_id,
                                 locations_before[i + 1].location_point_id}
            THEN result # "OK" /\ locations = locations_before
            ELSE ChangedInPlace(i)

\* C10 amended: on an interior entry change_visited_location fails with the
\* previous or the next entry's point; with any other point that differs from
\* the entry's current point it succeeds, keeps the length, keeps the entry at
\* its index and changes no other entry.
C10_ChangeInteriorVisitedLocation ==
    \A i \in 1..Len(locations_before) :
        ChangedInterior(i) =>
            IF call.args[2] \in {locations_before[i - 1].location_point_id,
                                 locations_before[i + 1].location_point_id}
            THEN result # "OK" /\ locations = locations_before
            ELSE call.args[2] # locations_before[i].location_point_id => ChangedInPlace(i)

W10_ChangedInterior ==
    /\ Succeeded("change_visited_location")
    /\ Len(locations_before) = 3
    /\ ChangedInterior(2)
    /\ ChangedInPlace(2)
    /\ locations[2].location_point_id # locations_before[2].location_point_id

\* C11: a successful change_animal_type(old, new) puts new at the index old
\* had; the list keeps its length and every other tag its value and index.
C11_ChangeAnimalTypeInPlace ==
    Succeeded("change_animal_type") =>
        /\ contains(types_before, call.args[1])
        /\ types = [types_before EXCEPT ![index(types_before, call.args[1])] = call.args[2]]

\* tags [A, B] became [C, B]
W11_ChangedFirstOfTwo ==
    /\ Succeeded("change_animal_type")
    /\ Len(types_before) = 2
    /\ types_before[1] = call.args[1]
    /\ types = <<call.args[2], types_before[2]>>
    /\ call.args[2] # call.args[1]

\* no two tags of the list have the same animal_type_id
NoDuplicateTypes(tags) ==
    \A i \in 1..Len(tags) : \A j \in 1..Len(tags) : tags[i] = tags[j] => i = j

\* C12: from a duplicate-free tag list, add_animal_type, change_animal_type
\* and delete_animal_type keep the list duplicate-free; add_animal_type raises
\* AnimalAlreadyHaveThisType for a tag the animal has and appends the tag
\* otherwise; check_duplicate_types returns None.
C12_NoDuplicateTypes ==
    /\ NoDuplicateTypes(types)
    /\ check_duplicate_types(animal) = None
    /\ call.op = "add_animal_type" =>
           IF contains(types_before, call.args[1])
           THEN result = "AnimalAlreadyHaveThisType" /\ types = types_before
           ELSE result = "OK" /\ types = Append(types_before, call.args[1])

W12_AppendedThirdType ==
    /\ Succeeded("add_animal_type")
    /\ Len(types_before) = 2
    /\ types = Append(types_before, call.args[1])

\* C13: once life_status is DEAD no operation makes it ALIVE again, and
\* visited_locations never gets longer than it was when the animal became
\* dead.
C13_DeadIsTerminal ==
    /\ (call.op # "create" /\ before.life_status = "DEAD") => animal.life_status = "DEAD"
    /\ (dead_with # None /\ dead_with # NotObserved) => Len(locations) <= The(dead_with)

\* the field holds the argument when one was supplied and its previous value
\* when the argument was left at Empty.UNSET
Applied(argument, field) ==
    animal[field] = IF argument = UNSET THEN before[field] ELSE The(argument)

C15_AsStated ==
    call.op = "change_animal_type" =>
        /\ result = "AnimalAlreadyHaveThisTypes" <=>
               /\ contains(types_before, call.args[1])
               /\ contains(types_before, call.args[2])
               /\ call.args[1] # call.args[2]
        /\ result = "AnimalAlreadyHaveThisType" <=>
               /\ contains(types_before, call.args[2])
               /\ ~contains(types_before, call.args[1])

\* C15: change_animal_type(old, new) raises AnimalAlreadyHaveThisTypes exactly
\* when old and new are both in the tag list, old equal to new included, and
\* AnimalAlreadyHaveThisType exactly when new is in the list and old is not.
C15_ChangeAnimalTypeRefusals ==
    call.op = "change_animal_type" =>
        /\ result = "AnimalAlreadyHaveThisTypes" <=>
               /\ contains(types_before, call.args[1])
               /\ contains(types_before, call.args[2])
        /\ result = "AnimalAlreadyHaveThisType" <=>
               /\ contains(types_before, call.args[2])
               /\ ~contains(types_before, call.args[1])

\* a tag the animal has was changed to itself
W15_ChangedToItself ==
    /\ call.op = "change_animal_type"
    /\ call.args[1] = call.args[2]
    /\ contains(types_before, call.args[1])
    /\ Len(types_before) = 2
    /\ result = "AnimalAlreadyHaveThisTypes"

\* the last call was change_visited_location of the entry at index i of the
\* history as it was, to the point new
ChangeOfEntry(i, new) ==
    /\ call.op = "change_visited_location"
    /\ i \in 1..Len(locations_before)
    /\ locations_before[i].id = call.args[1]
    /\ call.args[2] = new

\* C16: change_visited_location of the first entry, whether or not it is also
\* the last, to the chip-in point raises UpdatedFirstPointToChippingPoint when
\* the entry's point is another one, and leaves the history unchanged.
C16_FirstPointNotChangedToChippingPoint ==
    (/\ ChangeOfEntry(1, before.chipping_location_id)
     /\ locations_before[1].location_point_id # before.chipping_location_id) =>
        /\ result = "UpdatedFirstPointToChippingPoint"
        /\ locations = locations_before

\* the only entry of the history, first and last at once, was refused
W16_OnlyEntryRefused ==
    /\ ChangeOfEntry(1, before.chipping_location_id)
    /\ Len(locations_before) = 1
    /\ locations_before[1].location_point_id # before.chipping_location_id
    /\ result = "UpdatedFirstPointToChippingPoint"

\* the call returned and the entry at index i has the point new, every other
\* entry and the entry's id being as they were
EntryChanged(i, new) ==
    /\ result = "OK"
    /\ locations = [locations_before EXCEPT ![i].location_point_id = new]

\* C18: in a history of two or more entries change_visited_location compares
\* a boundary entry with no neighbour: the last entry takes every point other
\* than its own, the point of the entry before it and the chip-in point
\* included; the first entry takes every point other than its own and the
\* chip-in point, the point of the second entry included.
C18_BoundaryEntryChecksNoNeighbour ==
    (call.op = "change_visited_location" /\ Len(locations_before) >= 2) =>
        LET new == call.args[2]
            last == Len(locations_before)
        IN  /\ (/\ ChangeOfEntry(last, new)
                /\ locations_before[last].location_point_id # new) =>
                   EntryChanged(last, new)
            /\ (/\ ChangeOfEntry(1, new)
                /\ locations_before[1].location_point_id # new
                /\ before.chipping_location_id # new) =>
                   EntryChanged(1, new)

\* the last entry took the point of the entry before it
W18_LastTookPreviousPoint ==
    /\ Len(locations_before) >= 2
    /\ ChangeOfEntry(Len(locations_before), call.args[2])
    /\ locations_before[Len(locations_before) - 1].location_point_id = call.args[2]
    /\ locations_before[Len(locations_before)].location_point_id # call.args[2]
    /\ EntryChanged(Len(locations_before), call.args[2])

\* C20: change_animal_type(old, new) with neither old nor new in the tag list
\* raises AnimalNotHaveThisType and leaves the list unchanged;
\* delete_animal_type of a type the animal has not raises
\* AnimalNotHaveThisType too, even when the animal has exactly one tag.
C20_AbsentTypeIsRefused ==
    /\ (/\ call.op = "change_animal_type"
        /\ ~contains(types_before, call.args[1])
        /\ ~contains(types_before, call.args[2])) =>
           result = "AnimalNotHaveThisType" /\ types = types_before
    /\ (/\ call.op = "delete_animal_type"
        /\ ~contains(types_before, call.args[1])) =>
           result = "AnimalNotHaveThisType" /\ types = types_before

\* an animal with one tag was asked to delete another type
W20_AbsentTypeOfSingleTag ==
    /\ call.op = "delete_animal_type"
    /\ Len(types_before) = 1
    /\ types_before[1] # call.args[1]
    /\ result = "AnimalNotHaveThisType"
    /\ types = types_before

\* C17: set_death_datetime stamps death_datetime when life_status is DEAD and
\* changes nothing otherwise, no other field is touched, and no operation on the
\* aggregate makes a stamped death_datetime None again.
C17_DeathDatetimeIsStampedAndKept ==
    /\ call.op = "set_death_datetime" =>
           animal = IF before.life_status = "DEAD"
                    THEN [before EXCEPT !.death_datetime = Some(call.args[1])]
                    ELSE before
    /\ (call.op # "create" /\ before.death_datetime # None) =>
           animal.death_datetime # None

\* a dead animal with a history was stamped
W17_StampedDeadAnimal ==
    /\ call.op = "set_death_datetime"
    /\ before.life_status = "DEAD"
    /\ before.death_datetime = None
    /\ locations_before # <<>>
    /\ animal.death_datetime = Some(call.args[1])

\* C19: with chipping_location_id fixed, in every state reached from an empty
\* history by add_visited_location and delete_visited_location alone no entry
\* of visited_locations is at the chip-in point, so delete_visited_location
\* never removes the entry after the deleted one as well.
C19_NoEntryAtChippingPoint ==
    /\ animal.chipping_location_id = before.chipping_location_id
    /\ \A i \in 1..Len(locations) :
           locations[i].location_point_id # animal.chipping_location_id
    /\ Succeeded("delete_visited_location") =>
           /\ Len(locations) = Len(locations_before) - 1
           /\ ~(DeletedFirst /\ SecondWasChippingPoint)

\* the first of several entries was deleted and the entry after it stayed
W19_DeletedFirstOfSeveral ==
    /\ Succeeded("delete_visited_location")
    /\ Len(locations_before) >= 2
    /\ locations_before[1].id = call.args[1]
    /\ locations # <<>>
    /\ locations[1] = locations_before[2]

====
